---- MODULE Spec2Model ----
(***************************************************************************)
(* Model of tools/zanata/zanata_stats.py: the User aggregate, the merge of *)
(* a Zanata statistics payload into it (read_from_zanata_stats), the       *)
(* output filter (needs_output), the ordering (__lt__), the flattening and *)
(* serialisation, the two drivers get_zanata_stats and                    *)
(* write_stats_to_file, and a run of main() that calls one then the other. *)
(*                                                                         *)
(* Python dicts are functions from string keys to values; a Python list is *)
(* a sequence; a Python str that is compared with < is a sequence of       *)
(* one-character strings, ordered as str orders them.                      *)
(***************************************************************************)
EXTENDS Integers, Sequences, FiniteSets, TLC

VARIABLES
    users,          \* get_zanata_stats: the list of User objects
    statisticdata,  \* get_zanata_stats: the payload object last fetched
    scope,          \* get_zanata_stats: <<project_id, version>> of that fetch
    fetches,        \* number of get_user_stats calls made so far
    merges,         \* history of read_from_zanata_stats calls on users[1]
    output_file,    \* write_stats_to_file: what the last call wrote
    raised,         \* the exception that left the loop, or NoError
    run             \* main(): its arguments and where its control is

vars == <<users, statisticdata, scope, fetches, merges, output_file, raised, run>>

----------------------------------------------------------------------------
\* Bounds of the model.
MaxCount == 1          \* a payload's counters of one group sum to at most this
MaxContributions == 1  \* entries in a payload's contributions list
MaxFetch == 2          \* get_user_stats calls in one behaviour
MaxIterations == 2     \* iterations a project's description lists
MaxRead == 2           \* read_from_zanata_stats calls in one behaviour
MaxUsers == 3          \* users handed to write_stats_to_file
MaxStrLen == 2         \* length of a user id or language code that is sorted

----------------------------------------------------------------------------
\* Python values.

EmptyDict == [k \in {} |-> 0]

DictGet(d, k, default) == IF k \in DOMAIN d THEN d[k] ELSE default

DictSet(d, k, v) == [j \in DOMAIN d \cup {k} |-> IF j = k THEN v ELSE d[j]]

\* A test that takes every dict, the empty one included, for true.
TruthyAlways(d) == TRUE

\* bool(d) of a dict: non-empty.
Truthy(d) == DOMAIN d # {}

\* sum(d.values())
RECURSIVE SumValues(_)
SumValues(d) ==
    IF DOMAIN d = {} THEN 0
    ELSE LET k == CHOOSE j \in DOMAIN d : TRUE
         IN  d[k] + SumValues([j \in DOMAIN d \ {k} |-> d[j]])

\* Characters in code-point order, and str.__lt__ (lexicographic, a proper
\* prefix is smaller).
Alphabet == <<"a", "b", "d", "e", "j">>

Ord(c) == CHOOSE i \in 1..Len(Alphabet) : Alphabet[i] = c

RECURSIVE StrLt(_, _)
StrLt(s, t) ==
    IF t = <<>> THEN FALSE
    ELSE IF s = <<>> THEN TRUE
    ELSE IF Head(s) # Head(t) THEN Ord(Head(s)) < Ord(Head(t))
    ELSE StrLt(Tail(s), Tail(t))

----------------------------------------------------------------------------
\* The payload format (the comment in read_from_zanata_stats).

TransKeys == {"translated", "needReview", "approved", "rejected"}
ReviewKeys == {"approved", "rejected"}

ja == <<"j", "a">>
de == <<"d", "e">>
Locales == {ja, de}

\* Key sets a stats map of the payload may carry: none of the documented
\* counters, all of them, or only the one both groups share.
Shapes(K) == {{}, K, K \cap {"approved"}}

\* Raw stats maps: non-negative counters, no 'total' yet.
RawMaps(K) ==
    UNION {{m \in [D -> 0..MaxCount] : SumValues(m) <= MaxCount} : D \in Shapes(K)}

Absent == [absent |-> TRUE]

\* One entry of 'contributions'; a stats group may be missing altogether.
EntryOf(l, t, r) ==
    LET keys == {"locale"} \cup (IF t = Absent THEN {} ELSE {"translation-stats"})
                           \cup (IF r = Absent THEN {} ELSE {"review-stats"})
    IN  [k \in keys |-> CASE k = "locale" -> l
                          [] k = "translation-stats" -> t
                          [] k = "review-stats" -> r]

FullMap(K) == [k \in K |-> IF k = "approved" THEN MaxCount ELSE 0]

\* Entries for the language under study carry every raw map; an entry for
\* another language carries one populated record (its content is not read).
Entries ==
    {EntryOf(ja, t, r) : t \in RawMaps(TransKeys) \cup {Absent},
                         r \in RawMaps(ReviewKeys) \cup {Absent}}
    \cup {EntryOf(de, FullMap(TransKeys), FullMap(ReviewKeys))}

SeqsUpTo(S, n) == UNION {[1..m -> S] : m \in 0..n}

\* Payloads as json.loads returns them; the one without 'contributions' is
\* malformed.
Payloads ==
    {[k \in {"contributions"} |-> c] : c \in SeqsUpTo(Entries, MaxContributions)}
    \cup {EmptyDict}

Projects == {"proj-1"}
Versions == {"master", "stable-ocata"}

----------------------------------------------------------------------------
\* class User

\* User.__init__
NewUser(user_id, language_code) ==
    [user_id |-> user_id, lang |-> language_code,
     translation_stats |-> EmptyDict, review_stats |-> EmptyDict]

\* A comparison that takes the user id as the primary key.
UserLtIdFirst(self, other) ==
    IF self.user_id # other.user_id
    THEN StrLt(self.user_id, other.user_id)
    ELSE StrLt(self.lang, other.lang)

\* User.__lt__
UserLt(self, other) ==
    IF self.lang # other.lang
    THEN StrLt(self.lang, other.lang)
    ELSE StrLt(self.user_id, other.user_id)

\* A selection that forgets the locale test.
MatchingStatsAnyLocale(self, zanata_stats) ==
    1..Len(zanata_stats["contributions"])

\* The indices of the entries the list comprehension keeps.
MatchingStats(self, zanata_stats) ==
    {e \in 1..Len(zanata_stats["contributions"]) :
        zanata_stats["contributions"][e]["locale"] = self.lang}

\* A total that counts the values instead of adding them.
WithTotalLen(stats_map) == DictSet(stats_map, "total", Cardinality(DOMAIN stats_map))

\* trans_stats['total'] = sum(trans_stats.values()), on the payload's own dict.
WithTotal(stats_map) == DictSet(stats_map, "total", SumValues(stats_map))

\* User.read_from_zanata_stats, for a payload that has 'contributions'.
\* Returns the user after the call and the payload after the call: the
\* method writes 'total' into the payload's dicts and keeps references to them.
ReadFromZanataStats(self, zanata_stats) ==
    LET matching == MatchingStats(self, zanata_stats)
    IN  IF matching = {}
        THEN [self |-> self, zanata_stats |-> zanata_stats]
        ELSE
          LET e == CHOOSE i \in matching : \A j \in matching : i <= j
              stats == zanata_stats["contributions"][e]
              trans_stats == DictGet(stats, "translation-stats", EmptyDict)
              review_stats == DictGet(stats, "review-stats", EmptyDict)
              new_trans == WithTotal(trans_stats)
              new_review == WithTotal(review_stats)
              stats1 == IF Truthy(trans_stats)
                        THEN DictSet(stats, "translation-stats", new_trans)
                        ELSE stats
              stats2 == IF Truthy(review_stats)
                        THEN DictSet(stats1, "review-stats", new_review)
                        ELSE stats1
          IN  [self |->
                 [self EXCEPT
                    !.translation_stats =
                        IF Truthy(trans_stats) THEN new_trans ELSE @,
                    !.review_stats =
                        IF Truthy(review_stats) THEN new_review ELSE @],
               zanata_stats |->
                 [zanata_stats EXCEPT !["contributions"][e] = stats2]]

\* A filter that looks at the translation statistics only.
NeedsOutputTranslationOnly(self, include_no_activities) ==
    IF include_no_activities THEN TRUE
    ELSE IF Truthy(self.translation_stats) THEN TRUE
    ELSE FALSE

\* User.needs_output
NeedsOutput(self, include_no_activities) ==
    IF include_no_activities THEN TRUE
    ELSE IF Truthy(self.translation_stats) \/ Truthy(self.review_stats) THEN TRUE
    ELSE FALSE

\* User.get_flattened_data_title
GetFlattenedDataTitle ==
    <<"user_id", "lang", "translation-total", "translated", "needReview",
      "approved", "rejected", "review-total", "review-approved",
      "review-rejected">>

\* A row with the two translation columns 'approved' and 'rejected' swapped.
ConvertToFlattenedDataSwapped(self) ==
    <<self.user_id,
      self.lang,
      DictGet(self.translation_stats, "total", 0),
      DictGet(self.translation_stats, "translated", 0),
      DictGet(self.translation_stats, "needReview", 0),
      DictGet(self.translation_stats, "rejected", 0),
      DictGet(self.translation_stats, "approved", 0),
      DictGet(self.review_stats, "total", 0),
      DictGet(self.review_stats, "approved", 0),
      DictGet(self.review_stats, "rejected", 0)>>

\* User.convert_to_flattened_data
ConvertToFlattenedData(self) ==
    <<self.user_id,
      self.lang,
      DictGet(self.translation_stats, "total", 0),
      DictGet(self.translation_stats, "translated", 0),
      DictGet(self.translation_stats, "needReview", 0),
      DictGet(self.translation_stats, "approved", 0),
      DictGet(self.translation_stats, "rejected", 0),
      DictGet(self.review_stats, "total", 0),
      DictGet(self.review_stats, "approved", 0),
      DictGet(self.review_stats, "rejected", 0)>>

\* User.convert_to_serializable_data
ConvertToSerializableData(self) ==
    [k \in {"user_id", "lang", "translation-stats", "review-stats"} |->
        CASE k = "user_id" -> self.user_id
          [] k = "lang" -> self.lang
          [] k = "translation-stats" -> self.translation_stats
          [] k = "review-stats" -> self.review_stats]

----------------------------------------------------------------------------
\* sorted(): stable, uses only __lt__ (insertion from the left).

RECURSIVE InsertSorted(_, _)
InsertSorted(sorted_list, u) ==
    IF sorted_list = <<>> THEN <<u>>
    ELSE LET last == sorted_list[Len(sorted_list)]
         IN  IF UserLt(u, last)
             THEN Append(InsertSorted(SubSeq(sorted_list, 1, Len(sorted_list) - 1), u),
                         last)
             ELSE Append(sorted_list, u)

RECURSIVE Sorted(_)
Sorted(list) ==
    IF list = <<>> THEN <<>>
    ELSE InsertSorted(Sorted(SubSeq(list, 1, Len(list) - 1)), list[Len(list)])

RECURSIVE Filter(_, _)
Filter(list, include_no_activities) ==
    IF list = <<>> THEN <<>>
    ELSE LET rest == Filter(Tail(list), include_no_activities)
         IN  IF NeedsOutput(Head(list), include_no_activities)
             THEN <<Head(list)>> \o rest
             ELSE rest

\* _write_stats_to_csvfile
WriteStatsToCsvfile(stats) ==
    <<GetFlattenedDataTitle>> \o [i \in 1..Len(stats) |-> ConvertToFlattenedData(stats[i])]

\* _write_stats_to_jsonfile
WriteStatsToJsonfile(stats) ==
    [i \in 1..Len(stats) |-> ConvertToSerializableData(stats[i])]

----------------------------------------------------------------------------
\* The state machine.

NoError == "none"
NoFile == [format |-> "none", content |-> <<>>]
NoScope == <<"", "">>

\* No run of main(): the functions are called one by one.
NoRun ==
    [pc |-> "none", project_list |-> <<>>, version_list |-> <<>>,
     user_list |-> <<>>, p |-> 0, versions |-> <<>>, v |-> 0, u |-> 0,
     merged |-> 0]

\* get_zanata_stats up to the loop: one team with one translator.
Init ==
    /\ users = <<NewUser(<<"a">>, ja)>>
    /\ statisticdata = [k \in {"contributions"} |-> <<>>]
    /\ scope = NoScope
    /\ fetches = 0
    /\ merges = <<>>
    /\ output_file = NoFile
    /\ raised = NoError
    /\ run = NoRun

\* statisticdata = zanataUtil.get_user_stats(project_id, version, ...):
\* a fresh object decoded from the response.
GetUserStats(project_id, version, data) ==
    /\ raised = NoError
    /\ fetches < MaxFetch
    /\ statisticdata' = data
    /\ scope' = <<project_id, version>>
    /\ fetches' = fetches + 1
    /\ UNCHANGED <<users, merges, output_file, raised, run>>

\* user.read_from_zanata_stats(statisticdata), on the object last fetched.
ReadStats ==
    /\ raised = NoError
    /\ fetches > 0
    /\ Len(merges) < MaxRead
    /\ IF "contributions" \notin DOMAIN statisticdata
       THEN /\ raised' = "KeyError"
            /\ UNCHANGED <<users, statisticdata, merges>>
       ELSE LET r == ReadFromZanataStats(users[1], statisticdata)
                matching == MatchingStats(users[1], statisticdata)
                e == CHOOSE i \in matching : \A j \in matching : i <= j
                entry == statisticdata["contributions"][e]
            IN  /\ users' = [users EXCEPT ![1] = r.self]
                /\ statisticdata' = r.zanata_stats
                /\ merges' = Append(merges,
                      [fetch |-> fetches,
                       scope |-> scope,
                       matched |-> matching # {},
                       trans |-> IF matching = {} THEN EmptyDict
                                 ELSE DictGet(entry, "translation-stats", EmptyDict),
                       review |-> IF matching = {} THEN EmptyDict
                                  ELSE DictGet(entry, "review-stats", EmptyDict)])
                /\ UNCHANGED raised
    /\ UNCHANGED <<scope, fetches, output_file, run>>

\* write_stats_to_file
WriteStatsToFile(file_format, include_no_activities) ==
    /\ raised = NoError
    /\ LET stats == Sorted(Filter(users, include_no_activities))
       IN  output_file' =
             [format |-> file_format,
              content |-> IF file_format = "csv"
                          THEN WriteStatsToCsvfile(stats)
                          ELSE WriteStatsToJsonfile(stats)]
    /\ UNCHANGED <<users, statisticdata, scope, fetches, merges, raised, run>>

Next ==
    \/ \E p \in Projects, v \in Versions, d \in Payloads : GetUserStats(p, v, d)
    \/ ReadStats
    \/ \E f \in {"csv", "json"}, inc \in BOOLEAN : WriteStatsToFile(f, inc)

Spec == Init /\ [][Next]_vars

----------------------------------------------------------------------------
\* write_stats_to_file on its own: any list of users, in any order, some
\* with recorded activity and some without.

SortChars == {"a", "b"}
SortStrs == UNION {[1..n -> SortChars] : n \in 1..MaxStrLen}

ActiveStats == WithTotal(FullMap(TransKeys))

SortUsers ==
    {[NewUser(id, l) EXCEPT !.translation_stats = t] :
        id \in SortStrs, l \in Locales, t \in {EmptyDict, ActiveStats}}

SortInit ==
    /\ users \in SeqsUpTo(SortUsers, MaxUsers)
    /\ statisticdata = [k \in {"contributions"} |-> <<>>]
    /\ scope = NoScope
    /\ fetches = 0
    /\ merges = <<>>
    /\ output_file = NoFile
    /\ raised = NoError
    /\ run = NoRun

SortNext ==
    \E f \in {"csv", "json"}, inc \in BOOLEAN : WriteStatsToFile(f, inc)

SortSpec == SortInit /\ [][SortNext]_vars

----------------------------------------------------------------------------
\* A run of main(): get_zanata_stats for one project and one target version
\* (main refuses more than one of either), then write_stats_to_file.

\* Iteration ids a project may list.
Iterations == Versions \cup {"v1.0"}

\* ZanataUtility._is_valid_version: ZANATA_VERSION_PATTERN,
\* ^(master[-,a-z]*|stable-[a-z]+)$, on the ids of Iterations.
IsValidVersion(version) == version \in {"master", "stable-ocata"}

\* Decoded responses to projects/p/<project_id>, with or without the
\* 'iterations' list.
ProjectData ==
    {EmptyDict}
    \cup {[k \in {"iterations"} |-> i] :
            i \in SeqsUpTo({[id |-> x] : x \in Iterations}, MaxIterations)}

\* ZanataUtility.get_project_versions, from the decoded response on.
GetProjectVersions(project_data) ==
    IF "iterations" \in DOMAIN project_data
    THEN LET iterations == project_data["iterations"]
             ids == [i \in 1..Len(iterations) |-> iterations[i].id]
         IN  SelectSeq(ids, IsValidVersion)
    ELSE <<>>

\* What read_uri and read_json_from_uri log and raise again: the error of
\* requests.get, the error of json.loads.
FetchErrors == {"ConnectionError", "ValueError"}

\* x in list
InList(x, list) == \E i \in 1..Len(list) : list[i] = x

\* The control of the nested for loops of get_zanata_stats: from a position
\* (version r.v of the fetched list, user r.u), the statement that runs next.
\* A version or a user an option excludes is passed over ('continue').
RECURSIVE NextStatement(_, _)
NextStatement(r, us) ==
    IF r.v > Len(r.versions)
    THEN IF r.p < Len(r.project_list)
         THEN [r EXCEPT !.pc = "versions", !.p = @ + 1]
         ELSE [r EXCEPT !.pc = "write"]
    ELSE IF r.version_list # <<>> /\ ~InList(r.versions[r.v], r.version_list)
    THEN NextStatement([r EXCEPT !.v = @ + 1, !.u = 1], us)
    ELSE IF r.u > Len(us)
    THEN NextStatement([r EXCEPT !.v = @ + 1, !.u = 1], us)
    ELSE IF r.user_list # <<>> /\ ~InList(us[r.u].user_id, r.user_list)
    THEN NextStatement([r EXCEPT !.u = @ + 1], us)
    ELSE [r EXCEPT !.pc = "fetch"]

\* main() up to the loop: two teams of one translator each, the project, the
\* target version and the optional user filter of the command line.
RunInit ==
    /\ users = <<NewUser(<<"a">>, ja), NewUser(<<"b">>, de)>>
    /\ statisticdata = [k \in {"contributions"} |-> <<>>]
    /\ scope = NoScope
    /\ fetches = 0
    /\ merges = <<>>
    /\ output_file = NoFile
    /\ raised = NoError
    /\ \E project_id \in Projects, version \in Versions,
          user_list \in {<<>>, << <<"b">> >>} :
         run = [NoRun EXCEPT !.pc = "versions",
                             !.project_list = <<project_id>>,
                             !.version_list = <<version>>,
                             !.user_list = user_list,
                             !.p = 1]

\* for version in zanataUtil.get_project_versions(project_id): the call
\* returns.
RunGetProjectVersions(project_data) ==
    /\ raised = NoError
    /\ run.pc = "versions"
    /\ run' = NextStatement([run EXCEPT
                                !.versions = GetProjectVersions(project_data),
                                !.v = 1, !.u = 1], users)
    /\ UNCHANGED <<users, statisticdata, scope, fetches, merges, output_file,
                   raised>>

\* The same call raises.
RunGetProjectVersionsFails(error) ==
    /\ raised = NoError
    /\ run.pc = "versions"
    /\ raised' = error
    /\ UNCHANGED <<users, statisticdata, scope, fetches, merges, output_file,
                   run>>

\* statisticdata = zanataUtil.get_user_stats(...) in the loop: the call
\* returns.
RunGetUserStats(data) ==
    /\ raised = NoError
    /\ run.pc = "fetch"
    /\ statisticdata' = data
    /\ scope' = <<run.project_list[run.p], run.versions[run.v]>>
    /\ fetches' = fetches + 1
    /\ run' = [run EXCEPT !.pc = "read"]
    /\ UNCHANGED <<users, merges, output_file, raised>>

\* A loop that passes over a failed fetch and goes on with the next user.
RunGetUserStatsSkips(error) ==
    /\ raised = NoError
    /\ run.pc = "fetch"
    /\ fetches' = fetches + 1
    /\ run' = NextStatement([run EXCEPT !.u = @ + 1], users)
    /\ UNCHANGED <<users, statisticdata, scope, merges, output_file, raised>>

\* The same call raises: nothing in the loop or in main catches it.
RunGetUserStatsFails(error) ==
    /\ raised = NoError
    /\ run.pc = "fetch"
    /\ fetches' = fetches + 1
    /\ raised' = error
    /\ UNCHANGED <<users, statisticdata, scope, merges, output_file, run>>

\* user.read_from_zanata_stats(statisticdata) in the loop, for the user the
\* loop is at.
RunReadStats ==
    /\ raised = NoError
    /\ run.pc = "read"
    /\ IF "contributions" \notin DOMAIN statisticdata
       THEN /\ raised' = "KeyError"
            /\ UNCHANGED <<users, statisticdata, merges, run>>
       ELSE LET user == users[run.u]
                r == ReadFromZanataStats(user, statisticdata)
                matching == MatchingStats(user, statisticdata)
                e == CHOOSE i \in matching : \A j \in matching : i <= j
                entry == statisticdata["contributions"][e]
            IN  /\ users' = [users EXCEPT ![run.u] = r.self]
                /\ statisticdata' = r.zanata_stats
                /\ merges' =
                     IF run.u # 1 THEN merges
                     ELSE Append(merges,
                            [fetch |-> fetches,
                             scope |-> scope,
                             matched |-> matching # {},
                             trans |-> IF matching = {} THEN EmptyDict
                                       ELSE DictGet(entry, "translation-stats",
                                                    EmptyDict),
                             review |-> IF matching = {} THEN EmptyDict
                                        ELSE DictGet(entry, "review-stats",
                                                     EmptyDict)])
                /\ run' = NextStatement([run EXCEPT !.u = @ + 1,
                                                    !.merged = @ + 1], users')
                /\ UNCHANGED raised
    /\ UNCHANGED <<scope, fetches, output_file>>

\* main: write_stats_to_file(users, ...), after get_zanata_stats returned.
RunWriteStatsToFile(file_format, include_no_activities) ==
    /\ raised = NoError
    /\ run.pc = "write"
    /\ LET stats == Sorted(Filter(users, include_no_activities))
       IN  output_file' =
             [format |-> file_format,
              content |-> IF file_format = "csv"
                          THEN WriteStatsToCsvfile(stats)
                          ELSE WriteStatsToJsonfile(stats)]
    /\ run' = [run EXCEPT !.pc = "done"]
    /\ UNCHANGED <<users, statisticdata, scope, fetches, merges, raised>>

RunNext ==
    \/ \E project_data \in ProjectData : RunGetProjectVersions(project_data)
    \/ \E error \in FetchErrors : RunGetProjectVersionsFails(error)
    \/ \E data \in Payloads : RunGetUserStats(data)
    \/ \E error \in FetchErrors : RunGetUserStatsFails(error)
    \/ RunReadStats
    \/ \E f \in {"csv", "json"}, inc \in BOOLEAN : RunWriteStatsToFile(f, inc)

RunSpec == RunInit /\ [][RunNext]_vars

----------------------------------------------------------------------------
\* What the history of merges says, per (project, version) scope.

Scopes == Projects \X Versions

Last(seq) == seq[Len(seq)]

\* Every payload was merged as it was fetched (no 'total' written into it yet).
RawMerges ==
    \A i \in 1..Len(merges) :
        "total" \notin DOMAIN merges[i].trans \cup DOMAIN merges[i].review

\* No scope was merged into twice.
DistinctScopes ==
    \A i, j \in 1..Len(merges) : i # j => merges[i].scope # merges[j].scope

MergedScopes == {merges[i].scope : i \in {j \in 1..Len(merges) : merges[j].matched}}

\* The record a scope holds: the one of the last matching merge under it.
ScopeRecord(s) ==
    LET at == {i \in 1..Len(merges) : merges[i].matched /\ merges[i].scope = s}
    IN  merges[CHOOSE i \in at : \A j \in at : j <= i]

RECURSIVE SumOverScopes(_, _, _)
SumOverScopes(S, group, key) ==
    IF S = {} THEN 0
    ELSE LET s == CHOOSE x \in S : TRUE
         IN  DictGet(ScopeRecord(s)[group], key, 0)
             + SumOverScopes(S \ {s}, group, key)

ScopeSum(group, key) == SumOverScopes(MergedScopes, group, key)

\* A flattened row shows the per-counter sums over the merged scopes.
RowShowsScopeSums(row) ==
    /\ row[4] = ScopeSum("trans", "translated")
    /\ row[5] = ScopeSum("trans", "needReview")
    /\ row[6] = ScopeSum("trans", "approved")
    /\ row[7] = ScopeSum("trans", "rejected")
    /\ row[3] = row[4] + row[5] + row[6] + row[7]
    /\ row[9] = ScopeSum("review", "approved")
    /\ row[10] = ScopeSum("review", "rejected")
    /\ row[8] = row[9] + row[10]

----------------------------------------------------------------------------
\* C1: after merges under pairwise distinct (project, version) scopes, the
\* totals the aggregate reports, as its flattened row shows them, are for
\* every counter the sum over all merged scopes, and each 'total' is the sum
\* of its group's counters.
C1_TotalsAreSumsOverScopes ==
    (merges # <<>> /\ DistinctScopes /\ RawMerges)
        => RowShowsScopeSums(ConvertToFlattenedData(users[1]))

\* The sum of a raw map's counters, counter by counter.
TransSum(m) ==
    DictGet(m, "translated", 0) + DictGet(m, "needReview", 0)
    + DictGet(m, "approved", 0) + DictGet(m, "rejected", 0)

ReviewSum(m) == DictGet(m, "approved", 0) + DictGet(m, "rejected", 0)

StoredWithTotal(stored, raw, sum) ==
    /\ DOMAIN stored = DOMAIN raw \cup {"total"}
    /\ \A k \in DOMAIN raw : stored[k] = raw[k]
    /\ stored["total"] = sum

\* C2: after merging a payload whose matching entry has a non-empty
\* translation-stats map, the stored translation map has every original
\* counter with its original value and a 'total' equal to their sum, zeros
\* included; the same holds, independently, for review-stats.
C2_MergeStoresCountersAndTotal ==
    (merges # <<>> /\ Last(merges).matched /\ RawMerges) =>
        /\ Truthy(Last(merges).trans) =>
             StoredWithTotal(users[1].translation_stats, Last(merges).trans,
                             TransSum(Last(merges).trans))
        /\ Truthy(Last(merges).review) =>
             StoredWithTotal(users[1].review_stats, Last(merges).review,
                             ReviewSum(Last(merges).review))

\* A merge of an all-zero translation map together with a review map.
C2_Witness ==
    /\ merges # <<>> /\ Last(merges).matched /\ RawMerges
    /\ DOMAIN Last(merges).trans = TransKeys
    /\ TransSum(Last(merges).trans) = 0
    /\ users[1].translation_stats["total"] = 0
    /\ DOMAIN Last(merges).review = ReviewKeys
    /\ users[1].review_stats["total"] = MaxCount

----------------------------------------------------------------------------
\* Steps, as action formulas.

\* A call of read_from_zanata_stats that returned.
ReadStep == merges' # merges

\* A call of write_stats_to_file that changed the file.
WriteStep == output_file' # output_file

\* The payload has no entry for the user's language (its list may be empty).
NoEntryFor(user, payload) ==
    \A e \in 1..Len(payload["contributions"]) :
        payload["contributions"][e]["locale"] # user.lang

\* C3: merging a payload whose contributions list is empty, or has no entry
\* for the aggregate's language, changes nothing in the aggregate's stored
\* statistics and raises no error.
C3_NoMatchIsNoOp ==
    [][(ReadStep /\ NoEntryFor(users[1], statisticdata))
          => (users' = users /\ raised' = NoError)]_vars

\* A payload with an entry for another language only was merged into an
\* aggregate that already held statistics.
C3_Witness ==
    /\ Len(merges) = 2
    /\ Last(merges).fetch = fetches
    /\ Len(statisticdata["contributions"]) > 0
    /\ NoEntryFor(users[1], statisticdata)
    /\ Truthy(users[1].translation_stats)
    /\ Truthy(users[1].review_stats)

\* C4: merging the identical payload a second time under the same scope
\* leaves the aggregate's stored statistics, every 'total' included, as the
\* first merge left them.
C4_RemergeIsIdempotent ==
    [][(ReadStep /\ merges # <<>> /\ Last(merges).matched
          /\ Last(merges').fetch = Last(merges).fetch)
          => users' = users]_vars

\* C5: merging P1 and then a different payload P2 under the same scope, both
\* with an entry for the aggregate's language, leaves the record that merging
\* P2 alone into a fresh aggregate gives; a group P2 lacks is then empty.
C5_LastWriteWins ==
    [][(ReadStep /\ merges # <<>> /\ Last(merges).matched
          /\ Last(merges').matched
          /\ Last(merges').scope = Last(merges).scope
          /\ Last(merges').fetch # Last(merges).fetch)
          => users'[1] =
               ReadFromZanataStats(NewUser(users[1].user_id, users[1].lang),
                                   statisticdata).self]_vars

\* Some merge so far contributed a non-empty map in either group.
SomeActivityMerged ==
    \E i \in 1..Len(merges) : Truthy(merges[i].trans) \/ Truthy(merges[i].review)

\* C6: needs_output is true whenever include_no_activities is set; otherwise,
\* after any sequence of merges, it is false exactly when every
\* translation-stats and review-stats map merged so far was empty.
C6_NeedsOutputIffActivity ==
    /\ NeedsOutput(users[1], TRUE)
    /\ NeedsOutput(users[1], FALSE) <=> SomeActivityMerged

\* Two merges, the first of an entry without statistics, the second of one
\* with review statistics only: the aggregate now needs output.
C6_Witness ==
    /\ Len(merges) = 2
    /\ merges[1].matched /\ ~Truthy(merges[1].trans) /\ ~Truthy(merges[1].review)
    /\ merges[2].matched /\ ~Truthy(merges[2].trans) /\ Truthy(merges[2].review)
    /\ ~Truthy(users[1].translation_stats)
    /\ NeedsOutput(users[1], FALSE)

----------------------------------------------------------------------------
\* The rows of a written CSV file, without the title row.
CsvRows == SubSeq(output_file.content, 2, Len(output_file.content))

KeyOf(u) == <<u.lang, u.user_id>>

CountUsers(key, activeOnly) ==
    Cardinality({i \in 1..Len(users) :
        /\ KeyOf(users[i]) = key
        /\ activeOnly => (Truthy(users[i].translation_stats)
                          \/ Truthy(users[i].review_stats))})

CountRows(key) ==
    Cardinality({i \in 1..Len(CsvRows) : <<CsvRows[i][2], CsvRows[i][1]>> = key})

\* C7: the comparator is a strict weak ordering keyed on (language, user id)
\* ascending: irreflexive, asymmetric, transitive, and two aggregates are
\* unordered only when language and user id are both equal; the sorted output
\* holds the aggregates to output, each language contiguous and in ascending
\* user id within its language.
C7_ComparatorOrdersByLanguageThenUser ==
    /\ \A i, j, k \in 1..Len(users) :
         LET a == users[i]
             b == users[j]
             c == users[k]
         IN  /\ ~UserLt(a, a)
             /\ UserLt(a, b) => ~UserLt(b, a)
             /\ (UserLt(a, b) /\ UserLt(b, c)) => UserLt(a, c)
             /\ (~UserLt(a, b) /\ ~UserLt(b, a)) <=> (KeyOf(a) = KeyOf(b))
             /\ UserLt(a, b) <=>
                  \/ StrLt(a.lang, b.lang)
                  \/ a.lang = b.lang /\ StrLt(a.user_id, b.user_id)
    /\ output_file.format = "csv" =>
         /\ \A i, j \in 1..Len(CsvRows) :
              i < j =>
                /\ ~StrLt(CsvRows[j][2], CsvRows[i][2])
                /\ CsvRows[i][2] = CsvRows[j][2]
                     => ~StrLt(CsvRows[j][1], CsvRows[i][1])
                /\ \A m \in i..j :
                     CsvRows[i][2] = CsvRows[j][2] => CsvRows[m][2] = CsvRows[i][2]
         /\ \/ \A u \in SortUsers : CountRows(KeyOf(u)) = CountUsers(KeyOf(u), FALSE)
            \/ \A u \in SortUsers : CountRows(KeyOf(u)) = CountUsers(KeyOf(u), TRUE)

\* Three active users handed over as (ja, later id), (de, .), (ja, earlier
\* id) and written as three rows.
C7_Witness ==
    /\ Len(users) = 3
    /\ users[1].lang = ja /\ users[2].lang = de /\ users[3].lang = ja
    /\ StrLt(users[3].user_id, users[1].user_id)
    /\ output_file.format = "csv"
    /\ Len(CsvRows) = 3
    /\ CsvRows[1][2] = de
    /\ CsvRows[2][1] = users[3].user_id
    /\ CsvRows[3][1] = users[1].user_id

\* C8: a report made again after a further scope was merged shows the
\* per-counter sums over the scopes now stored, computed from the per-scope
\* records alone.
C8_RerunRecomputesFromScopes ==
    [][(WriteStep /\ output_file.format = "csv" /\ output_file'.format = "csv"
          /\ Len(output_file'.content) = 2
          /\ merges # <<>> /\ RawMerges)
          => RowShowsScopeSums(output_file'.content[2])]_vars

GroupKeys(group) == IF group = "trans" THEN TransKeys ELSE ReviewKeys

GroupTotals(group) ==
    IF group = "trans" THEN users[1].translation_stats ELSE users[1].review_stats

\* C9: for each stat group, if no merge contributed a non-empty map the
\* aggregate's totals for the group are the empty mapping, and if some merge
\* did they hold every canonical counter and 'total'.
C9_TotalsAreTriState ==
    \A group \in {"trans", "review"} :
        LET contributed == \E i \in 1..Len(merges) : Truthy(merges[i][group])
        IN  /\ ~contributed => GroupTotals(group) = EmptyDict
            /\ contributed =>
                 DOMAIN GroupTotals(group) = GroupKeys(group) \cup {"total"}

\* What a column of the title row names.
Counter(m, k) == IF k \in DOMAIN m THEN m[k] ELSE 0

FieldOf(name, u) ==
    CASE name = "user_id" -> u.user_id
      [] name = "lang" -> u.lang
      [] name = "translation-total" -> Counter(u.translation_stats, "total")
      [] name = "translated" -> Counter(u.translation_stats, "translated")
      [] name = "needReview" -> Counter(u.translation_stats, "needReview")
      [] name = "approved" -> Counter(u.translation_stats, "approved")
      [] name = "rejected" -> Counter(u.translation_stats, "rejected")
      [] name = "review-total" -> Counter(u.review_stats, "total")
      [] name = "review-approved" -> Counter(u.review_stats, "approved")
      [] name = "review-rejected" -> Counter(u.review_stats, "rejected")

TenFields ==
    <<"user_id", "lang", "translation-total", "translated", "needReview",
      "approved", "rejected", "review-total", "review-approved",
      "review-rejected">>

Fresh(user) == user.translation_stats = EmptyDict /\ user.review_stats = EmptyDict

\* The payload entry a read matched carries counters in `present` and none in
\* `missing` (the key absent, or an empty map).
OnlyGroup(read, present, missing) ==
    /\ read.matched
    /\ DOMAIN read[present] # {}
    /\ DOMAIN read[missing] = {}

\* C11: merging into a fresh aggregate a payload whose matched entry has only
\* one of the two stat groups stores the present group with its 'total' and
\* leaves the other group an empty mapping: translation-only gives
\* review_stats = {}, review-only gives translation_stats = {}; no error is
\* raised and no zero-filled map is stored.
C11_SingleGroupLeavesOtherEmpty ==
    [][(ReadStep /\ Fresh(users[1])) =>
        LET read == Last(merges')
        IN  /\ OnlyGroup(read, "trans", "review") =>
                 /\ raised' = NoError
                 /\ users'[1].review_stats = EmptyDict
                 /\ StoredWithTotal(users'[1].translation_stats, read.trans,
                                    TransSum(read.trans))
            /\ OnlyGroup(read, "review", "trans") =>
                 /\ raised' = NoError
                 /\ users'[1].translation_stats = EmptyDict
                 /\ StoredWithTotal(users'[1].review_stats, read.review,
                                    ReviewSum(read.review))]_vars

\* A first merge of an entry with review counters only: the review totals
\* are stored and the translation totals are still empty.
C11_Witness ==
    /\ Len(merges) = 1
    /\ OnlyGroup(merges[1], "review", "trans")
    /\ DOMAIN merges[1].review = ReviewKeys
    /\ users[1].review_stats["total"] = MaxCount
    /\ users[1].translation_stats = EmptyDict

\* The number of (version, user) pairs the loop of the run has to fetch,
\* given the versions the project listed and the options of the command line.
Expected ==
    Cardinality(
        {pair \in (1..Len(run.versions)) \X (1..Len(users)) :
            /\ run.versions[pair[1]] = run.version_list[1]
            /\ run.user_list = <<>>
                 \/ users[pair[2]].user_id = run.user_list[1]})

\* C12: in a run, an error of a fetch (network or parse) or of a malformed
\* payload leaves the loop as raised, with no retry and no skipping: once an
\* error is raised nothing more happens (no fetch, no merge, no report), at
\* most one issued fetch is ever without its merge, and a report is written
\* only with no error raised and every fetch of the loop issued and merged.
C12_FailureAbortsRunWithoutReport ==
    [][/\ raised = NoError
       /\ fetches' - run'.merged <= 1
       /\ raised' # NoError => output_file' = NoFile
       /\ output_file' # NoFile =>
            /\ raised' = NoError
            /\ fetches' = Expected'
            /\ run'.merged = Expected']_vars

\* The second fetch of a run fails after the first was merged: the loop has
\* work left, and there is no report.
C12_Witness ==
    /\ raised \in FetchErrors
    /\ run.merged = 1
    /\ fetches = 2
    /\ fetches < Expected
    /\ output_file = NoFile

====
